---------------------------- MODULE Spec2Model ----------------------------
(***************************************************************************)
(* Sensor collection of the beszel agent (internal/agent/sensors.go):      *)
(* building the SensorConfig from the SENSORS value, the sensor filter     *)
(* isValidSensor, the temperature collector updateTemperatures and the     *)
(* generic sensor collector updateGenericSensors.                          *)
(*                                                                         *)
(* Go strings are TLA+ strings, handled character by character with Len,   *)
(* SubSeq and \o.  A float64 is an integer count of 1/Scale units, so that *)
(* 0.0045, 0.45, 11.8 and 12.5 are all exact.                              *)
(***************************************************************************)
EXTENDS Integers, Sequences, FiniteSets, TLC

VARIABLES
    env,            \* PRIMARY_SENSOR and SENSORS as GetEnv returns them
    sensorConfig,   \* a.sensorConfig
    systemStats,    \* the system.Stats handed to the collectors
    DashboardTemp,  \* a.systemInfo.DashboardTemp
    genericDir,     \* the entries of /generic-sensors
    call            \* the last operation: its inputs and what it returned

vars == <<env, sensorConfig, systemStats, DashboardTemp, genericDir, call>>

\* float64 values are counted in units of 1/Scale
Scale == 10000

---------------------------------------------------------------------------
(* package strings, strconv and path, as the code uses them *)

\* the i-th byte of s, 1-based
CharAt(s, i) == SubSeq(s, i, i)

HasPrefix(s, prefix) ==
    /\ Len(s) >= Len(prefix)
    /\ SubSeq(s, 1, Len(prefix)) = prefix

HasSuffix(s, suffix) ==
    /\ Len(s) >= Len(suffix)
    /\ SubSeq(s, Len(s) - Len(suffix) + 1, Len(s)) = suffix

Contains(s, substr) ==
    \E i \in 1..(Len(s) - Len(substr) + 1) : SubSeq(s, i, i + Len(substr) - 1) = substr

IsSpace(c) == c \in {" ", "\t", "\n", "\r"}

RECURSIVE TrimLeft(_)
TrimLeft(s) ==
    IF Len(s) > 0 /\ IsSpace(CharAt(s, 1)) THEN TrimLeft(SubSeq(s, 2, Len(s))) ELSE s

RECURSIVE TrimRight(_)
TrimRight(s) ==
    IF Len(s) > 0 /\ IsSpace(CharAt(s, Len(s))) THEN TrimRight(SubSeq(s, 1, Len(s) - 1)) ELSE s

TrimSpace(s) == TrimRight(TrimLeft(s))

\* the index of the first sep at or after position i of s, 0 when there is none
RECURSIVE IndexFrom(_, _, _)
IndexFrom(s, sep, i) ==
    IF i > Len(s) THEN 0
    ELSE IF CharAt(s, i) = sep THEN i
    ELSE IndexFrom(s, sep, i + 1)

\* strings.Split / strings.SplitSeq with a one-byte separator: the pieces
\* between the separators, in order; Split("", ",") is <<"">>
RECURSIVE Split(_, _)
Split(s, sep) ==
    LET i == IndexFrom(s, sep, 1)
    IN  IF i = 0 THEN <<s>>
        ELSE <<SubSeq(s, 1, i - 1)>> \o Split(SubSeq(s, i + 1, Len(s)), sep)

Digits == <<"0", "1", "2", "3", "4", "5", "6", "7", "8", "9">>

IsDigit(c) == \E d \in 1..10 : Digits[d] = c

DigitVal(c) == (CHOOSE d \in 1..10 : Digits[d] = c) - 1

\* strconv.Itoa for i >= 0
RECURSIVE Itoa(_)
Itoa(i) == IF i < 10 THEN Digits[i + 1] ELSE Itoa(i \div 10) \o Digits[(i % 10) + 1]

AllDigits(s) == \A i \in 1..Len(s) : IsDigit(CharAt(s, i))

\* the value of the digit string s
RECURSIVE Atoi(_)
Atoi(s) ==
    IF Len(s) = 0 THEN 0
    ELSE 10 * Atoi(SubSeq(s, 1, Len(s) - 1)) + DigitVal(CharAt(s, Len(s)))

\* 10^n
RECURSIVE Pow10(_)
Pow10(n) == IF n = 0 THEN 1 ELSE 10 * Pow10(n - 1)

\* the number of decimal places one unit holds: Scale = 10^ScaleDigits
RECURSIVE Log10(_)
Log10(n) == IF n < 10 THEN 0 ELSE 1 + Log10(n \div 10)

\* the fraction digits frac in units of 1/Scale; digits past the unit are dropped
FracUnits(frac) ==
    LET k == Log10(Scale)
    IN  IF Len(frac) >= k THEN Atoi(SubSeq(frac, 1, k))
        ELSE Atoi(frac) * Pow10(k - Len(frac))

\* the float64 value NaN, kept apart from every number of the model
NaN == 0 - Pow10(9)

\* the float64 comparisons a < b and a >= b: both are false when a or b is NaN
Less(a, b) == a # NaN /\ b # NaN /\ a < b

GreaterEq(a, b) == a # NaN /\ b # NaN /\ a >= b

\* strconv.ParseFloat(s, 64) on plain decimals, [+-]digits[.digits] with at
\* least one digit, and on the text nan in any case, which it takes for NaN.
\* Any other text is a syntax error (exponents, infinities and hexadecimal
\* floats are not among the inputs of this model).
ParseFloat(s) ==
    LET signed == Len(s) > 0 /\ CharAt(s, 1) \in {"+", "-"}
        body   == IF signed THEN SubSeq(s, 2, Len(s)) ELSE s
        dot    == IndexFrom(body, ".", 1)
        whole  == IF dot = 0 THEN body ELSE SubSeq(body, 1, dot - 1)
        frac   == IF dot = 0 THEN "" ELSE SubSeq(body, dot + 1, Len(body))
        ok     == /\ AllDigits(whole)
                  /\ AllDigits(frac)
                  /\ Len(whole) + Len(frac) > 0
        mag    == Atoi(whole) * Scale + FracUnits(frac)
        nan    == /\ Len(s) = 3
                  /\ CharAt(s, 1) \in {"n", "N"}
                  /\ CharAt(s, 2) \in {"a", "A"}
                  /\ CharAt(s, 3) \in {"n", "N"}
    IN  IF nan THEN [err |-> FALSE, value |-> NaN]
        ELSE IF ~ok THEN [err |-> TRUE, value |-> 0]
        ELSE [err |-> FALSE,
              value |-> IF signed /\ CharAt(s, 1) = "-" THEN 0 - mag ELSE mag]

\* path.Match(pattern, name) for patterns made of literal bytes, '?' and '*':
\* '*' matches any run of non-'/' bytes, '?' one non-'/' byte (character
\* classes and escapes are not among the patterns of this model)
RECURSIVE Match(_, _)
Match(pattern, name) ==
    IF Len(pattern) = 0 THEN Len(name) = 0
    ELSE LET p    == CharAt(pattern, 1)
             rest == SubSeq(pattern, 2, Len(pattern))
         IN  IF p = "*"
             THEN \/ Match(rest, name)
                  \/ /\ Len(name) > 0
                     /\ CharAt(name, 1) # "/"
                     /\ Match(pattern, SubSeq(name, 2, Len(name)))
             ELSE /\ Len(name) > 0
                  /\ \/ p = CharAt(name, 1)
                     \/ p = "?" /\ CharAt(name, 1) # "/"
                  /\ Match(rest, SubSeq(name, 2, Len(name)))

---------------------------------------------------------------------------
(* SensorConfig and its construction *)

\* an empty Go map
EmptyMap == [k \in {} |-> 0]

\* m with m[k] = v
MapSet(m, k, v) == [x \in (DOMAIN m) \cup {k} |-> IF x = k THEN v ELSE m[x]]

\* type GenericSensorConfig
GenericSensorConfig(name, unit, maximum, minimum) ==
    [Name |-> name, Unit |-> unit, Maximum |-> maximum, Minimum |-> minimum]

\* parseGenericSensor: the configuration after the call and whether it
\* returned an error
parseGenericSensor(config, sensor) ==
    LET content    == SubSeq(sensor, 2, Len(sensor) - 1)
        parts      == Split(content, ",")
        name       == TrimSpace(parts[1])
        unit       == TrimSpace(parts[2])
        maximumStr == TrimSpace(parts[3])
        minimumStr == TrimSpace(parts[4])
        maximum    == ParseFloat(maximumStr)
        minimum    == ParseFloat(minimumStr)
        failed     == [err |-> TRUE, config |-> config]
    IN  IF Len(parts) # 4 THEN failed
        ELSE IF name = "" THEN failed
        ELSE IF unit = "" THEN failed
        ELSE IF maximum.err THEN failed
        ELSE IF minimum.err THEN failed
        ELSE IF GreaterEq(minimum.value, maximum.value) THEN failed
        ELSE [err    |-> FALSE,
              config |-> [config EXCEPT !.genericSensors =
                              MapSet(@, name, GenericSensorConfig(
                                  name, unit, maximum.value, minimum.value))]]

\* one round of the loop of newSensorConfigWithEnv over the pieces of the
\* SENSORS value
addSensor(config, piece) ==
    LET sensor == TrimSpace(piece)
    IN  IF sensor = "" THEN config
        ELSE IF HasPrefix(sensor, "(") /\ HasSuffix(sensor, ")")
             THEN parseGenericSensor(config, sensor).config
        ELSE [config EXCEPT !.sensors = @ \cup {sensor},
                            !.hasWildcards = @ \/ Contains(sensor, "*")]

\* the loop of newSensorConfigWithEnv over pieces[i..]
RECURSIVE addSensors(_, _, _)
addSensors(config, pieces, i) ==
    IF i > Len(pieces) THEN config
    ELSE addSensors(addSensor(config, pieces[i]), pieces, i + 1)

\* the pieces the loop of newSensorConfigWithEnv ranges over
sensorPieces(sensorsEnvVal) == Split(sensorsEnvVal, ",")

\* newSensorConfigWithEnv, were the leading '-' left on the first piece
newSensorConfigWithEnvKeepDash(primarySensor, sysSensors, sensorsEnvVal, skipCollection) ==
    addSensors([context        |-> sysSensors,
                primarySensor  |-> primarySensor,
                skipCollection |-> skipCollection,
                sensors        |-> {},
                genericSensors |-> EmptyMap,
                isBlacklist    |-> HasPrefix(sensorsEnvVal, "-"),
                hasWildcards   |-> FALSE],
               sensorPieces(sensorsEnvVal), 1)

newSensorConfigWithEnv(primarySensor, sysSensors, sensorsEnvVal, skipCollection) ==
    LET blacklist == HasPrefix(sensorsEnvVal, "-")
        val       == IF blacklist THEN SubSeq(sensorsEnvVal, 2, Len(sensorsEnvVal))
                     ELSE sensorsEnvVal
        config    == [context        |-> sysSensors,
                      primarySensor  |-> primarySensor,
                      skipCollection |-> skipCollection,
                      sensors        |-> {},
                      genericSensors |-> EmptyMap,
                      isBlacklist    |-> blacklist,
                      hasWildcards   |-> FALSE]
    IN  addSensors(config, sensorPieces(val), 1)

\* newSensorConfig, were an unset SENSORS taken for an empty one
newSensorConfigSkipUnset(e) ==
    newSensorConfigWithEnv(e.primarySensor, e.sysSensors, e.sensorsEnvVal,
                           e.sensorsEnvVal = "")

\* newSensorConfig: e is what GetEnv returns for PRIMARY_SENSOR, SYS_SENSORS
\* and SENSORS (an unset variable reads as "")
newSensorConfig(e) ==
    LET skipCollection == e.sensorsSet /\ e.sensorsEnvVal = ""
    IN  newSensorConfigWithEnv(e.primarySensor, e.sysSensors, e.sensorsEnvVal,
                               skipCollection)

---------------------------------------------------------------------------
(* isValidSensor *)

\* every sequence that lists the elements of S once
RECURSIVE Perms(_)
Perms(S) ==
    IF S = {} THEN {<<>>}
    ELSE UNION {{<<x>> \o p : p \in Perms(S \ {x})} : x \in S}

\* The orders in which `for pattern := range config.sensors` may visit the
\* patterns: Go leaves the order of a map range to the runtime.  A pattern
\* without '*' is passed over by the loop's continue wherever it stands, so
\* the order is drawn over the patterns that hold a '*'.
rangeOrders(config) == Perms({p \in config.sensors : Contains(p, "*")})

\* the wildcard loop, were it to answer on the first pattern it visits
matchLoopFirstOnly(sensorName, config, order, i) ==
    IF i > Len(order) THEN config.isBlacklist
    ELSE IF Match(order[i], sensorName) THEN ~config.isBlacklist
    ELSE config.isBlacklist

\* the wildcard loop of isValidSensor from order[i] on
RECURSIVE matchLoop(_, _, _, _)
matchLoop(sensorName, config, order, i) ==
    IF i > Len(order) THEN config.isBlacklist
    ELSE IF ~Contains(order[i], "*") THEN matchLoop(sensorName, config, order, i + 1)
    ELSE IF Match(order[i], sensorName) THEN ~config.isBlacklist
    ELSE matchLoop(sensorName, config, order, i + 1)

\* isValidSensor, were the generic sensors not looked at
isValidSensorPatternsOnly(sensorName, config, order) ==
    IF config.sensors = {} THEN TRUE
    ELSE IF sensorName \in config.sensors THEN ~config.isBlacklist
    ELSE IF ~config.hasWildcards THEN config.isBlacklist
    ELSE matchLoop(sensorName, config, order, 1)

isValidSensor(sensorName, config, order) ==
    IF sensorName \in DOMAIN config.genericSensors THEN TRUE
    ELSE IF config.sensors = {} THEN TRUE
    ELSE IF sensorName \in config.sensors THEN ~config.isBlacklist
    ELSE IF ~config.hasWildcards THEN config.isBlacklist
    ELSE matchLoop(sensorName, config, order, 1)

---------------------------------------------------------------------------
(* system.Stats and the state every specification starts from *)

\* a Go map field: nil until make() sets it
NilMap == [isNil |-> TRUE, m |-> EmptyMap]

MadeMap(m) == [isNil |-> FALSE, m |-> m]

\* len() of a map field
MapLen(mp) == Cardinality(DOMAIN mp.m)

\* a system.Stats no collector has written to
FreshStats == [Temperatures |-> NilMap, GenericSensors |-> NilMap]

\* GetEnv for PRIMARY_SENSOR, SYS_SENSORS and SENSORS, and runtime.GOOS
Env(primarySensor, sensorsEnvVal, sensorsSet, goos) ==
    [primarySensor |-> primarySensor,
     sysSensors    |-> "",
     sensorsEnvVal |-> sensorsEnvVal,
     sensorsSet    |-> sensorsSet,
     GOOS          |-> goos]

---------------------------------------------------------------------------
(* updateTemperatures *)

\* twoDecimals (agent utilities): the value rounded to two decimal places,
\* halves away from zero
twoDecimals(value) ==
    LET step == Scale \div 100
        mag  == IF value < 0 THEN 0 - value ELSE value
        q    == ((mag + step \div 2) \div step) * step
    IN  IF value < 0 THEN 0 - q ELSE q

Max(a, b) == IF a >= b THEN a ELSE b

\* scaleTemperature, were it to fall back to the x1000 value
scaleTemperatureFallback1000(temp) ==
    LET scaled100  == temp * 100
        scaled1000 == temp * 1000
    IN  IF temp > Scale THEN temp
        ELSE IF scaled100 >= 15 * Scale /\ scaled100 <= 95 * Scale THEN scaled100
        ELSE scaled1000

scaleTemperature(temp) ==
    LET scaled100  == temp * 100
        scaled1000 == temp * 1000
    IN  IF temp > Scale THEN temp
        ELSE IF scaled100 >= 15 * Scale /\ scaled100 <= 95 * Scale THEN scaled100
        ELSE IF scaled1000 >= 15 * Scale /\ scaled1000 <= 95 * Scale THEN scaled1000
        ELSE scaled100

\* a sensor key that is not valid UTF-8 (gopsutil issue 1832) is written as
\* this text
MalformedKey == "core\\xff"

\* utf8.ValidString
ValidString(s) == s # MalformedKey

\* sensors.TemperatureStat
TemperatureStat(key, temperature) == [SensorKey |-> key, Temperature |-> temperature]

\* The sensor source (getSensorTemps) as one cycle meets it: it panics on its
\* first `faults` invocations and afterwards returns temps, together with an
\* error value when err is set.
SensorSource(faults, temps, err) == [faults |-> faults, temps |-> temps, err |-> err]

\* getTempsWithPanicRecovery, were the error value of the source returned
getTempsKeepError(source, n) ==
    IF n <= source.faults
    THEN [temps |-> <<>>, err |-> TRUE, panicked |-> FALSE]
    ELSE [temps |-> source.temps, err |-> source.err, panicked |-> FALSE]

\* getTempsWithPanicRecovery, were the deferred recover missing
getTempsNoRecover(source, n) ==
    IF n <= source.faults
    THEN [temps |-> <<>>, err |-> FALSE, panicked |-> TRUE]
    ELSE [temps |-> source.temps, err |-> FALSE, panicked |-> FALSE]

\* getTempsWithPanicRecovery at the n-th invocation of the source in a cycle:
\* a panic is recovered into err and leaves temps nil; the error value the
\* source returns is dropped.  panicked says whether a panic leaves the call.
getTempsWithPanicRecovery(source, n) ==
    IF n <= source.faults
    THEN [temps |-> <<>>, err |-> TRUE, panicked |-> FALSE]
    ELSE [temps |-> source.temps, err |-> FALSE, panicked |-> FALSE]

\* the name a reading is stored under, were the suffix counted from 1
outputNameFromOne(key, m, i) ==
    IF key \in DOMAIN m THEN key \o "_" \o Itoa(i + 1) ELSE key

\* the name reading i is stored under: its key, or key_i when the map being
\* filled already holds the key
outputName(key, m, i) ==
    IF key \in DOMAIN m THEN key \o "_" \o Itoa(i) ELSE key

\* one round of the loop, were the filter asked about the key of the reading
temperatureRoundFilterOnKey(acc, i, sensor, config, goos, order) ==
    LET temperature == IF sensor.Temperature # 0 /\ sensor.Temperature < Scale
                       THEN scaleTemperature(sensor.Temperature)
                       ELSE sensor.Temperature
        sensorName  == outputName(sensor.SensorKey, acc.m, i)
        skipped(why) == [acc EXCEPT !.log = Append(@,
                            [verdict |-> why, name |-> "", value |-> temperature])]
    IN  IF goos = "darwin" /\ ~ValidString(sensor.SensorKey) THEN skipped("malformed")
        ELSE IF temperature <= 0 \/ temperature >= 200 * Scale THEN skipped("implausible")
        ELSE IF ~isValidSensor(sensor.SensorKey, config, order) THEN skipped("filtered")
        ELSE [m    |-> MapSet(acc.m, sensorName, twoDecimals(temperature)),
              dash |-> IF config.primarySensor = "" THEN Max(acc.dash, temperature)
                       ELSE IF config.primarySensor = sensorName THEN temperature
                       ELSE acc.dash,
              log  |-> Append(acc.log,
                          [verdict |-> "stored", name |-> sensorName, value |-> temperature])]

\* one round of the loop, were DashboardTemp the maximum whatever the primary
\* sensor
temperatureRoundMaxAlways(acc, i, sensor, config, goos, order) ==
    LET temperature == IF sensor.Temperature # 0 /\ sensor.Temperature < Scale
                       THEN scaleTemperature(sensor.Temperature)
                       ELSE sensor.Temperature
        sensorName  == outputName(sensor.SensorKey, acc.m, i)
        skipped(why) == [acc EXCEPT !.log = Append(@,
                            [verdict |-> why, name |-> "", value |-> temperature])]
    IN  IF goos = "darwin" /\ ~ValidString(sensor.SensorKey) THEN skipped("malformed")
        ELSE IF temperature <= 0 \/ temperature >= 200 * Scale THEN skipped("implausible")
        ELSE IF ~isValidSensor(sensorName, config, order) THEN skipped("filtered")
        ELSE [m    |-> MapSet(acc.m, sensorName, twoDecimals(temperature)),
              dash |-> Max(acc.dash, temperature),
              log  |-> Append(acc.log,
                          [verdict |-> "stored", name |-> sensorName, value |-> temperature])]

\* One round of the loop of updateTemperatures: reading `sensor` at 0-based
\* index i.  acc holds the map being filled (m), DashboardTemp (dash) and, for
\* the record, what became of each reading so far (log).
temperatureRound(acc, i, sensor, config, goos, order) ==
    LET temperature == IF sensor.Temperature # 0 /\ sensor.Temperature < Scale
                       THEN scaleTemperature(sensor.Temperature)
                       ELSE sensor.Temperature
        sensorName  == outputName(sensor.SensorKey, acc.m, i)
        skipped(why) == [acc EXCEPT !.log = Append(@,
                            [verdict |-> why, name |-> "", value |-> temperature])]
    IN  IF goos = "darwin" /\ ~ValidString(sensor.SensorKey) THEN skipped("malformed")
        ELSE IF temperature <= 0 \/ temperature >= 200 * Scale THEN skipped("implausible")
        ELSE IF ~isValidSensor(sensorName, config, order) THEN skipped("filtered")
        ELSE [m    |-> MapSet(acc.m, sensorName, twoDecimals(temperature)),
              dash |-> IF config.primarySensor = "" THEN Max(acc.dash, temperature)
                       ELSE IF config.primarySensor = sensorName THEN temperature
                       ELSE acc.dash,
              log  |-> Append(acc.log,
                          [verdict |-> "stored", name |-> sensorName, value |-> temperature])]

\* the loop of updateTemperatures over temps[i+1..] (i is the 0-based index)
RECURSIVE temperatureLoop(_, _, _, _, _, _)
temperatureLoop(acc, i, temps, config, goos, orders) ==
    IF i >= Len(temps) THEN acc
    ELSE temperatureLoop(
             temperatureRound(acc, i, temps[i + 1], config, goos, orders[i + 1]),
             i + 1, temps, config, goos, orders)

\* updateTemperatures, were DashboardTemp not reset
updateTemperaturesNoReset(temperatures, dashboardTemp, config, goos, source, orders) ==
    LET first  == getTempsWithPanicRecovery(source, 1)
        second == getTempsWithPanicRecovery(source, 2)
        done(t, d, n, p, l) ==
            [Temperatures |-> t, DashboardTemp |-> d, invoked |-> n, panicked |-> p, log |-> l]
        collect(temps, n) ==
            IF Len(temps) = 0 THEN done(temperatures, dashboardTemp, n, FALSE, <<>>)
            ELSE LET acc == temperatureLoop([m |-> EmptyMap, dash |-> dashboardTemp,
                                             log |-> <<>>],
                                            0, temps, config, goos, orders)
                 IN  done(MadeMap(acc.m), acc.dash, n, FALSE, acc.log)
    IN  IF config.skipCollection THEN done(temperatures, dashboardTemp, 0, FALSE, <<>>)
        ELSE IF first.panicked THEN done(temperatures, dashboardTemp, 1, TRUE, <<>>)
        ELSE IF ~first.err THEN collect(first.temps, 1)
        ELSE IF second.panicked THEN done(temperatures, dashboardTemp, 2, TRUE, <<>>)
        ELSE IF ~second.err THEN collect(second.temps, 2)
        ELSE done(IF MapLen(temperatures) > 0 THEN MadeMap(EmptyMap) ELSE temperatures,
                  dashboardTemp, 2, FALSE, <<>>)

\* updateTemperatures, were the loop to fill the map it was handed
updateTemperaturesKeepMap(temperatures, dashboardTemp, config, goos, source, orders) ==
    LET first  == getTempsWithPanicRecovery(source, 1)
        second == getTempsWithPanicRecovery(source, 2)
        done(t, d, n, p, l) ==
            [Temperatures |-> t, DashboardTemp |-> d, invoked |-> n, panicked |-> p, log |-> l]
        collect(temps, n) ==
            IF Len(temps) = 0 THEN done(temperatures, 0, n, FALSE, <<>>)
            ELSE LET acc == temperatureLoop([m |-> temperatures.m, dash |-> 0, log |-> <<>>],
                                            0, temps, config, goos, orders)
                 IN  done(MadeMap(acc.m), acc.dash, n, FALSE, acc.log)
    IN  IF config.skipCollection THEN done(temperatures, dashboardTemp, 0, FALSE, <<>>)
        ELSE IF first.panicked THEN done(temperatures, 0, 1, TRUE, <<>>)
        ELSE IF ~first.err THEN collect(first.temps, 1)
        ELSE IF second.panicked THEN done(temperatures, 0, 2, TRUE, <<>>)
        ELSE IF ~second.err THEN collect(second.temps, 2)
        ELSE done(IF MapLen(temperatures) > 0 THEN MadeMap(EmptyMap) ELSE temperatures,
                  0, 2, FALSE, <<>>)

\* updateTemperatures, were the map made before the readings are counted
updateTemperaturesMakeFirst(temperatures, dashboardTemp, config, goos, source, orders) ==
    LET first  == getTempsWithPanicRecovery(source, 1)
        second == getTempsWithPanicRecovery(source, 2)
        done(t, d, n, p, l) ==
            [Temperatures |-> t, DashboardTemp |-> d, invoked |-> n, panicked |-> p, log |-> l]
        collect(temps, n) ==
            LET acc == temperatureLoop([m |-> EmptyMap, dash |-> 0, log |-> <<>>],
                                       0, temps, config, goos, orders)
            IN  done(MadeMap(acc.m), acc.dash, n, FALSE, acc.log)
    IN  IF config.skipCollection THEN done(temperatures, dashboardTemp, 0, FALSE, <<>>)
        ELSE IF first.panicked THEN done(temperatures, 0, 1, TRUE, <<>>)
        ELSE IF ~first.err THEN collect(first.temps, 1)
        ELSE IF second.panicked THEN done(temperatures, 0, 2, TRUE, <<>>)
        ELSE IF ~second.err THEN collect(second.temps, 2)
        ELSE done(IF MapLen(temperatures) > 0 THEN MadeMap(EmptyMap) ELSE temperatures,
                  0, 2, FALSE, <<>>)

\* updateTemperatures(systemStats): the Temperatures field and DashboardTemp
\* when it returns, the number of times it invoked the sensor source, whether
\* it returned by a panic, and the log of its loop.  orders[i+1] is the order
\* isValidSensor ranges over the patterns in for reading i.
updateTemperatures(temperatures, dashboardTemp, config, goos, source, orders) ==
    LET first  == getTempsWithPanicRecovery(source, 1)
        second == getTempsWithPanicRecovery(source, 2)
        done(t, d, n, p, l) ==
            [Temperatures |-> t, DashboardTemp |-> d, invoked |-> n, panicked |-> p, log |-> l]
        collect(temps, n) ==
            IF Len(temps) = 0 THEN done(temperatures, 0, n, FALSE, <<>>)
            ELSE LET acc == temperatureLoop([m |-> EmptyMap, dash |-> 0, log |-> <<>>],
                                            0, temps, config, goos, orders)
                 IN  done(MadeMap(acc.m), acc.dash, n, FALSE, acc.log)
    IN  IF config.skipCollection THEN done(temperatures, dashboardTemp, 0, FALSE, <<>>)
        ELSE IF first.panicked THEN done(temperatures, 0, 1, TRUE, <<>>)
        ELSE IF ~first.err THEN collect(first.temps, 1)
        ELSE IF second.panicked THEN done(temperatures, 0, 2, TRUE, <<>>)
        ELSE IF ~second.err THEN collect(second.temps, 2)
        ELSE done(IF MapLen(temperatures) > 0 THEN MadeMap(EmptyMap) ELSE temperatures,
                  0, 2, FALSE, <<>>)

---------------------------------------------------------------------------
(* updateGenericSensors *)

\* an entry of /generic-sensors: whether os.Stat finds it, whether
\* os.ReadFile can read it, its execute permission and its content
DirEntry(exists, readable, executable, content) ==
    [exists |-> exists, readable |-> readable, executable |-> executable,
     content |-> content]

\* no entry of that name
MissingEntry == DirEntry(FALSE, FALSE, FALSE, "")

\* ReadSensorFromFile
ReadSensorFromFile(entry) ==
    IF ~entry.readable THEN [err |-> TRUE, value |-> 0]
    ELSE ParseFloat(TrimSpace(entry.content))

\* collectGenericSensorValue: the entry named after the sensor is read as a
\* file, whatever its permissions
collectGenericSensorValue(sensorName, config, dir) ==
    IF ~dir[sensorName].exists THEN [err |-> TRUE, value |-> 0]
    ELSE ReadSensorFromFile(dir[sensorName])

\* system.SensorData
SensorData(value, unit, min, max) ==
    [Value |-> value, Unit |-> unit, Min |-> min, Max |-> max]

\* the range check, were the bounds exclusive
inRangeExclusive(value, config) == value > config.Minimum /\ value < config.Maximum

\* the range check of updateGenericSensors
inRange(value, config) ==
    ~(Less(value, config.Minimum) \/ Less(config.Maximum, value))

\* one round of the loop of updateGenericSensors; acc holds the map (m) and,
\* for the record, the names written in this call (stored)
genericRound(acc, name, config, dir) ==
    LET read == collectGenericSensorValue(name, config, dir)
    IN  IF read.err THEN acc
        ELSE IF ~inRange(read.value, config) THEN acc
        ELSE [m      |-> MapSet(acc.m, name,
                                SensorData(twoDecimals(read.value), config.Unit,
                                           config.Minimum, config.Maximum)),
              stored |-> acc.stored \cup {name}]

\* the loop of updateGenericSensors, were it left at the first sensor that
\* fails
RECURSIVE genericLoopStopAtFailure(_, _, _, _, _)
genericLoopStopAtFailure(acc, genericSensors, dir, order, i) ==
    IF i > Len(order) THEN acc
    ELSE LET next == genericRound(acc, order[i], genericSensors[order[i]], dir)
         IN  IF next = acc THEN acc
             ELSE genericLoopStopAtFailure(next, genericSensors, dir, order, i + 1)

\* the loop of updateGenericSensors over order[i..]
RECURSIVE genericLoop(_, _, _, _, _)
genericLoop(acc, genericSensors, dir, order, i) ==
    IF i > Len(order) THEN acc
    ELSE genericLoop(genericRound(acc, order[i], genericSensors[order[i]], dir),
                     genericSensors, dir, order, i + 1)

\* updateGenericSensors, were the map made at the first entry stored
updateGenericSensorsLazy(generic, config, dir, order) ==
    IF Cardinality(DOMAIN config.genericSensors) = 0
    THEN [GenericSensors |-> generic, stored |-> {}]
    ELSE LET fin(acc) == [GenericSensors |-> IF acc.stored = {} THEN generic
                                             ELSE MadeMap(acc.m),
                          stored |-> acc.stored]
         IN  fin(genericLoop([m |-> generic.m, stored |-> {}],
                             config.genericSensors, dir, order, 1))

\* updateGenericSensors(systemStats): the GenericSensors field when it
\* returns and the names it wrote; order is the order the range over
\* a.sensorConfig.genericSensors takes
updateGenericSensors(generic, config, dir, order) ==
    IF Cardinality(DOMAIN config.genericSensors) = 0
    THEN [GenericSensors |-> generic, stored |-> {}]
    ELSE LET fin(acc) == [GenericSensors |-> MadeMap(acc.m), stored |-> acc.stored]
         IN  fin(genericLoop([m |-> generic.m, stored |-> {}],
                             config.genericSensors, dir, order, 1))

---------------------------------------------------------------------------
(* Spec: the SensorConfig built from the SENSORS value, and the filter *)

\* the longest SENSORS value, in pieces joined by commas
MaxTokens == 2

\* what the pieces of a SENSORS value are drawn from
ConfigPieces ==
    {"cpu_temp", "gpu_temp", "*acpi*", "cpu*", " fan1 ", "", " ",
     "(pressure,Pa,1000,0)", "(voltage,V,12.5,0.5)",
     "(invalid_format)", "(pressure,Pa,0,1000)"}

\* pieces[i..] joined by commas
RECURSIVE Join(_, _)
Join(pieces, i) ==
    IF i > Len(pieces) THEN ""
    ELSE IF i = Len(pieces) THEN pieces[i]
    ELSE pieces[i] \o "," \o Join(pieces, i + 1)

\* the SENSORS values: one to MaxTokens pieces, with or without the leading '-'
ConfigStrings ==
    {prefix \o Join(pieces, 1) :
        prefix \in {"", "-"},
        pieces \in UNION {[1..n -> ConfigPieces] : n \in 1..MaxTokens}}

\* SENSORS unset, or set to one of ConfigStrings
ConfigEnvs ==
    {Env("", "", FALSE, "linux")} \cup {Env("", s, TRUE, "linux") : s \in ConfigStrings}

\* the sensor names the filter is asked about
SensorNames ==
    {"cpu_temp", "gpu_temp", "fan1", "thermal_acpi_0", "cpu_core_0", "pressure", "Pa"}

Init ==
    /\ env \in ConfigEnvs
    /\ sensorConfig = newSensorConfig(env)
    /\ systemStats = FreshStats
    /\ DashboardTemp = 0
    /\ genericDir = EmptyMap
    /\ call = [op |-> "newSensorConfig"]

\* isValidSensor(sensorName, a.sensorConfig), the map range taking `order`
IsValidSensor(sensorName, order) ==
    /\ call' = [op         |-> "isValidSensor",
                sensorName |-> sensorName,
                ret        |-> isValidSensor(sensorName, sensorConfig, order)]
    /\ UNCHANGED <<env, sensorConfig, systemStats, DashboardTemp, genericDir>>

Next ==
    \E sensorName \in SensorNames, order \in rangeOrders(sensorConfig) :
        IsValidSensor(sensorName, order)

Spec == Init /\ [][Next]_vars

---------------------------------------------------------------------------
(* SpecFilter: isValidSensor on a SensorConfig whose fields are set directly *)

\* the temperature patterns of the configurations
FilterPatterns == {"cpu_temp", "pressure", "*acpi*"}

\* the generic sensor definitions of the configurations
FilterGenerics ==
    {GenericSensorConfig("pressure", "Pa", 1000 * Scale, 0),
     GenericSensorConfig("voltage", "V", 125000, 5000)}

\* the map that holds the definitions of defs under their names
GenericMap(defs) ==
    [name \in {d.Name : d \in defs} |-> CHOOSE d \in defs : d.Name = name]

\* a SensorConfig literal; hasWildcards as newSensorConfigWithEnv keeps it
FilterConfigs ==
    {[context        |-> "",
      primarySensor  |-> "",
      skipCollection |-> FALSE,
      sensors        |-> patterns,
      genericSensors |-> GenericMap(defs),
      isBlacklist    |-> blacklist,
      hasWildcards   |-> \E p \in patterns : Contains(p, "*")] :
        patterns \in SUBSET FilterPatterns,
        defs \in SUBSET FilterGenerics,
        blacklist \in BOOLEAN}

InitFilter ==
    /\ env = Env("", "", FALSE, "linux")
    /\ sensorConfig \in FilterConfigs
    /\ systemStats = FreshStats
    /\ DashboardTemp = 0
    /\ genericDir = EmptyMap
    /\ call = [op |-> "SensorConfig"]

SpecFilter == InitFilter /\ [][Next]_vars

---------------------------------------------------------------------------
(* SpecTemps: cycles of updateTemperatures on one system.Stats *)

\* the most readings the sensor source returns in one cycle
MaxReadings == 2

\* the most invocations in a row on which the sensor source panics
MaxFaults == 2

\* the readings the sensor source returns: 0.45, 0.0045 and 0 degrees under
\* the key core, 0.045 and 60.1234 under gpu, 50 under a malformed key
Readings ==
    {TemperatureStat("core", 4500),
     TemperatureStat("core", 45),
     TemperatureStat("core", 0),
     TemperatureStat("gpu", 450),
     TemperatureStat("gpu", 601234),
     TemperatureStat(MalformedKey, 50 * Scale)}

TempLists == UNION {[1..n -> Readings] : n \in 0..MaxReadings}

\* the sensor source in a cycle: it answers at the first invocation with any
\* of the lists; or with at most one reading when an error value comes with
\* the answer or the answer comes at the second invocation; or it panics on
\* both invocations and more
Sources ==
    {SensorSource(0, temps, FALSE) : temps \in TempLists}
    \cup {SensorSource(faults, temps, err) :
              faults \in 0..1, temps \in {t \in TempLists : Len(t) <= 1}, err \in BOOLEAN}
    \cup {SensorSource(faults, <<>>, FALSE) : faults \in 2..MaxFaults}

\* the environments of the temperature collector: no filter (on linux and on
\* darwin), the whitelist {core}, the blacklist {core}, SENSORS set to the
\* empty string, to a blank and to a lone '-', and core as primary sensor
TempEnvs ==
    {Env("", "", FALSE, "linux"),
     Env("", "", FALSE, "darwin"),
     Env("", " ", TRUE, "linux"),
     Env("", "-", TRUE, "linux"),
     Env("", "core", TRUE, "linux"),
     Env("", "-core", TRUE, "linux"),
     Env("", "", TRUE, "linux"),
     Env("core", "", FALSE, "linux")}

\* the Temperatures field of the system.Stats the first cycle is handed:
\* unset, empty, or holding an entry
PriorTemperatures == {NilMap, MadeMap(EmptyMap), MadeMap([k \in {"old"} |-> 50 * Scale])}

InitTemps ==
    /\ env \in TempEnvs
    /\ sensorConfig = newSensorConfig(env)
    /\ systemStats \in {[FreshStats EXCEPT !.Temperatures = t] : t \in PriorTemperatures}
    /\ DashboardTemp \in {0, 50 * Scale}
    /\ genericDir = EmptyMap
    /\ call = [op |-> "newSensorConfig"]

\* a.updateTemperatures(systemStats) with the sensor source behaving as source
UpdateTemperatures(source, orders) ==
    \E r \in {updateTemperatures(systemStats.Temperatures, DashboardTemp, sensorConfig,
                                env.GOOS, source, orders)} :
        /\ systemStats' = [systemStats EXCEPT !.Temperatures = r.Temperatures]
        /\ DashboardTemp' = r.DashboardTemp
        /\ call' = [op       |-> "updateTemperatures",
                    source   |-> source,
                    hadTemps |-> MapLen(systemStats.Temperatures) > 0,
                    invoked  |-> r.invoked,
                    panicked |-> r.panicked,
                    log      |-> r.log]
        /\ UNCHANGED <<env, sensorConfig, genericDir>>

NextTemps ==
    \E source \in Sources, orders \in [1..MaxReadings -> rangeOrders(sensorConfig)] :
        UpdateTemperatures(source, orders)

SpecTemps == InitTemps /\ [][NextTemps]_vars

---------------------------------------------------------------------------
(* SpecTempKeys: cycles of updateTemperatures whose readings differ in their
   keys, some of which end in an ordinal *)

\* the most readings the sensor source returns in one cycle of SpecTempKeys
MaxKeyReadings == 3

\* readings of 50, 60 and 70 degrees under the keys core, core_2 and gpu
KeyReadings ==
    {TemperatureStat("core", 50 * Scale),
     TemperatureStat("core", 60 * Scale),
     TemperatureStat("core_2", 70 * Scale),
     TemperatureStat("gpu", 60 * Scale)}

\* the sensor source answers at its first invocation
KeySources ==
    {SensorSource(0, temps, FALSE) :
        temps \in UNION {[1..n -> KeyReadings] : n \in 0..MaxKeyReadings}}

\* no filter, and the whitelist {core,core_2}
KeyEnvs ==
    {Env("", "", FALSE, "linux"),
     Env("", "core,core_2", TRUE, "linux")}

InitTempKeys ==
    /\ env \in KeyEnvs
    /\ sensorConfig = newSensorConfig(env)
    /\ systemStats \in {[FreshStats EXCEPT !.Temperatures = t] : t \in PriorTemperatures}
    /\ DashboardTemp = 0
    /\ genericDir = EmptyMap
    /\ call = [op |-> "newSensorConfig"]

NextTempKeys ==
    \E source \in KeySources, orders \in [1..MaxKeyReadings -> rangeOrders(sensorConfig)] :
        UpdateTemperatures(source, orders)

SpecTempKeys == InitTempKeys /\ [][NextTempKeys]_vars

---------------------------------------------------------------------------
(* SpecScale: cycles of updateTemperatures with one reading each, over the
   fractional and the non-positive raw values *)

\* the distance between the raw values taken from between 0 and 1, in units
\* of 1/Scale
RawStride == 50

\* raw values: from between 0 and 1, every RawStride-th one and those next to
\* the edges of the [15,95] windows of x100 and x1000; 1 and above; 0 and
\* below
RawValues ==
    {raw \in 1..(Scale - 1) : raw % RawStride = 0}
    \cup {1, 14, 15, 16, 94, 95, 96, 149, 150, 151, 949, 950, 951,
          1499, 1500, 1501, 9499, 9500, 9501, Scale - 1}
    \cup {Scale, Scale + 1, 45 * Scale, 199 * Scale, 200 * Scale}
    \cup {0, 0 - 1, 0 - 4500, 0 - Scale, 0 - 45 * Scale}

\* the sensor source answers at once with one reading keyed core
ScaleSources ==
    {SensorSource(0, <<TemperatureStat("core", raw)>>, FALSE) : raw \in RawValues}

InitScale ==
    /\ env = Env("", "", FALSE, "linux")
    /\ sensorConfig = newSensorConfig(env)
    /\ systemStats = FreshStats
    /\ DashboardTemp = 0
    /\ genericDir = EmptyMap
    /\ call = [op |-> "newSensorConfig"]

NextScale ==
    \E source \in ScaleSources, orders \in [1..1 -> rangeOrders(sensorConfig)] :
        UpdateTemperatures(source, orders)

SpecScale == InitScale /\ [][NextScale]_vars

---------------------------------------------------------------------------
(* SpecGeneric: cycles of updateGenericSensors on one system.Stats, the
   entries of /generic-sensors changing in between *)

\* the sensors that may be configured: (voltage,V,12.5,0.5) and
\* (pressure,Pa,1000,0)
GenericDefs ==
    {GenericSensorConfig("voltage", "V", 125000, 5000),
     GenericSensorConfig("pressure", "Pa", 1000 * Scale, 0)}

\* what a file of /generic-sensors may hold
FileContents ==
    {"11.8", "13.0", "12.5", "0.5", "0.4999", "11.876", " 11.8\n", "-1", "abc"}

\* the entries of /generic-sensors: none, a readable file, a file that cannot
\* be read, an executable script
DirEntries ==
    {MissingEntry}
    \cup {DirEntry(TRUE, TRUE, FALSE, content) : content \in FileContents}
    \cup {DirEntry(TRUE, FALSE, FALSE, "11.8"),
          DirEntry(TRUE, TRUE, TRUE, "#!/bin/sh\necho 11.8\n")}

\* a SensorConfig literal with the generic sensors defs and no pattern
GenericConfig(defs) ==
    [context        |-> "",
     primarySensor  |-> "",
     skipCollection |-> FALSE,
     sensors        |-> {},
     genericSensors |-> GenericMap(defs),
     isBlacklist    |-> FALSE,
     hasWildcards   |-> FALSE]

InitGeneric ==
    /\ env = Env("", "", FALSE, "linux")
    /\ sensorConfig \in {GenericConfig(defs) : defs \in SUBSET GenericDefs}
    /\ systemStats = FreshStats
    /\ DashboardTemp = 0
    /\ genericDir = [name \in {d.Name : d \in GenericDefs} |-> MissingEntry]
    /\ call = [op |-> "SensorConfig"]

\* a.updateGenericSensors(systemStats), the map range taking `order`
UpdateGenericSensors(order) ==
    \E r \in {updateGenericSensors(systemStats.GenericSensors, sensorConfig,
                                   genericDir, order)} :
        /\ systemStats' = [systemStats EXCEPT !.GenericSensors = r.GenericSensors]
        /\ call' = [op |-> "updateGenericSensors", order |-> order, stored |-> r.stored]
        /\ UNCHANGED <<env, sensorConfig, DashboardTemp, genericDir>>

\* the entry `name` of /generic-sensors is created, replaced or removed
WriteEntry(name, entry) ==
    /\ genericDir' = [genericDir EXCEPT ![name] = entry]
    /\ call' = [op |-> "WriteEntry"]
    /\ UNCHANGED <<env, sensorConfig, systemStats, DashboardTemp>>

NextGeneric ==
    \/ \E order \in Perms(DOMAIN sensorConfig.genericSensors) : UpdateGenericSensors(order)
    \/ \E name \in DOMAIN genericDir, entry \in DirEntries : WriteEntry(name, entry)

SpecGeneric == InitGeneric /\ [][NextGeneric]_vars

---------------------------------------------------------------------------
(* SpecParse: parseGenericSensor called on one SensorConfig, token by token *)

\* the fields the tokens are made of
ParseNames == {"pressure", " p ", ""}

ParseUnits == {"Pa", " "}

ParseMaxima == {"12.5", "abc", "NaN"}

ParseMinima == {"0", "12.5", "1000", "abc", "NaN"}

\* the tokens handed to parseGenericSensor: text between parentheses, of
\* four fields or of another number of fields
ParseTokens ==
    {"(" \o Join(<<name, unit, maximum, minimum>>, 1) \o ")" :
        name \in ParseNames, unit \in ParseUnits,
        maximum \in ParseMaxima, minimum \in ParseMinima}
    \cup {"()", "(invalid_format)", "(pressure,Pa,12.5)", "(pressure,Pa,12.5,0,0)"}

InitParse ==
    /\ env = Env("", "", FALSE, "linux")
    /\ sensorConfig = newSensorConfig(env)
    /\ systemStats = FreshStats
    /\ DashboardTemp = 0
    /\ genericDir = EmptyMap
    /\ call = [op |-> "newSensorConfig"]

\* config.parseGenericSensor(sensor); its callers hand it text that starts
\* with '(' and ends with ')'
ParseGenericSensor(sensor) ==
    /\ HasPrefix(sensor, "(") /\ HasSuffix(sensor, ")")
    /\ \E r \in {parseGenericSensor(sensorConfig, sensor)} :
           /\ sensorConfig' = r.config
           /\ call' = [op |-> "parseGenericSensor", sensor |-> sensor, err |-> r.err]
    /\ UNCHANGED <<env, systemStats, DashboardTemp, genericDir>>

NextParse == \E sensor \in ParseTokens : ParseGenericSensor(sensor)

SpecParse == InitParse /\ [][NextParse]_vars

---------------------------------------------------------------------------
(* Claims about the configuration and the filter *)

\* the configuration holds the definition def under its name
HasGeneric(config, def) ==
    /\ def.Name \in DOMAIN config.genericSensors
    /\ config.genericSensors[def.Name] = def

\* C1: a SENSORS value that holds the token (pressure,Pa,1000,0) yields the
\* generic sensor pressure -> {Pa, maximum 1000, minimum 0}, and the value
\* (pressure,Pa,1000,0) alone yields that definition and no temperature
\* pattern; likewise for (voltage,V,12.5,0.5).
C1_GenericTokenParsed ==
    /\ \A w \in {<<"(pressure,Pa,1000,0)", GenericSensorConfig("pressure", "Pa", 1000 * Scale, 0)>>,
                 <<"(voltage,V,12.5,0.5)", GenericSensorConfig("voltage", "V", 125000, 5000)>>} :
           Contains(env.sensorsEnvVal, w[1]) => HasGeneric(sensorConfig, w[2])
    /\ env.sensorsEnvVal = "(pressure,Pa,1000,0)" =>
           /\ DOMAIN sensorConfig.genericSensors = {"pressure"}
           /\ sensorConfig.sensors = {}

\* the filter was asked about a name that is no generic sensor
AskedNonGeneric ==
    /\ call.op = "isValidSensor"
    /\ call.sensorName \notin DOMAIN sensorConfig.genericSensors

\* C2: a leading '-' selects the blacklist and is stripped once before the
\* value is split: -cpu_temp,gpu_temp yields isBlacklist with the patterns
\* {cpu_temp, gpu_temp}; and under a blacklist without wildcards a name that
\* is no generic sensor is rejected exactly when it is one of the patterns.
C2_BlacklistInverts ==
    /\ sensorConfig.isBlacklist = HasPrefix(env.sensorsEnvVal, "-")
    /\ env.sensorsEnvVal = "-cpu_temp,gpu_temp" =>
           /\ sensorConfig.sensors = {"cpu_temp", "gpu_temp"}
           /\ AskedNonGeneric /\ call.sensorName = "gpu_temp" => call.ret = FALSE
           /\ AskedNonGeneric /\ call.sensorName = "fan1" => call.ret = TRUE
    /\ AskedNonGeneric /\ sensorConfig.isBlacklist /\ ~sensorConfig.hasWildcards =>
           call.ret = (call.sensorName \notin sensorConfig.sensors)

\* C2's case: -cpu_temp,gpu_temp rejected gpu_temp
C2_Witness ==
    /\ env.sensorsEnvVal = "-cpu_temp,gpu_temp"
    /\ call.op = "isValidSensor"
    /\ call.sensorName = "gpu_temp"
    /\ call.ret = FALSE

\* name is an exact pattern, or a pattern with '*' glob-matches it
Matched(config, name) ==
    \/ name \in config.sensors
    \/ \E p \in config.sensors : Contains(p, "*") /\ Match(p, name)

\* C3: with a wildcard pattern configured, the answer for a name that is no
\* generic sensor is Matched under a whitelist and its negation under a
\* blacklist, whatever order the patterns are visited in; the whitelist
\* {*acpi*} accepts thermal_acpi_0 and rejects cpu_core_0.
C3_WildcardFilter ==
    /\ AskedNonGeneric /\ sensorConfig.hasWildcards =>
           call.ret = (Matched(sensorConfig, call.sensorName) # sensorConfig.isBlacklist)
    /\ AskedNonGeneric /\ sensorConfig.sensors = {"*acpi*"} /\ ~sensorConfig.isBlacklist =>
           /\ call.sensorName = "thermal_acpi_0" => call.ret = TRUE
           /\ call.sensorName = "cpu_core_0" => call.ret = FALSE

\* C3's case: two wildcard patterns, the name matched by one of them only
C3_Witness ==
    /\ sensorConfig.sensors = {"*acpi*", "cpu*"}
    /\ ~sensorConfig.isBlacklist
    /\ call.op = "isValidSensor"
    /\ call.sensorName = "thermal_acpi_0"
    /\ call.ret = TRUE

\* C4: a name that is a key of genericSensors is accepted, whatever the
\* polarity and the patterns.
C4_GenericAlwaysValid ==
    call.op = "isValidSensor" /\ call.sensorName \in DOMAIN sensorConfig.genericSensors =>
        call.ret = TRUE

\* C4's case: a generic sensor name that is also a blacklisted exact pattern
C4_Witness ==
    /\ call.op = "isValidSensor"
    /\ call.sensorName = "pressure"
    /\ "pressure" \in DOMAIN sensorConfig.genericSensors
    /\ "pressure" \in sensorConfig.sensors
    /\ sensorConfig.isBlacklist
    /\ call.ret = TRUE

\* generic tokens that are rejected: one field instead of four, and a
\* minimum (1000) above the maximum (0)
RejectedTokens == {"(invalid_format)", "(pressure,Pa,0,1000)"}

\* the index of the first occurrence of t at or after position i of s
RECURSIVE IndexOf(_, _, _)
IndexOf(s, t, i) ==
    IF i + Len(t) - 1 > Len(s) THEN 0
    ELSE IF SubSeq(s, i, i + Len(t) - 1) = t THEN i
    ELSE IndexOf(s, t, i + 1)

\* s without the first occurrence of the token t and the comma that
\* separates it from its neighbour
RemoveToken(s, t) ==
    LET i      == IndexOf(s, t, 1)
        before == SubSeq(s, 1, i - 1)
        after  == SubSeq(s, i + Len(t), Len(s))
    IN  IF HasPrefix(after, ",") THEN before \o SubSeq(after, 2, Len(after))
        ELSE IF HasSuffix(before, ",") THEN SubSeq(before, 1, Len(before) - 1) \o after
        ELSE before \o after

\* what parsing leaves of a SENSORS value besides the polarity
Parsed(sensorsEnvVal) ==
    LET config == newSensorConfigWithEnv("", "", sensorsEnvVal, FALSE)
    IN  <<config.sensors, config.hasWildcards, config.genericSensors>>

\* C13: a rejected generic token affects nothing but itself: the patterns,
\* hasWildcards and the generic definitions of a SENSORS value that holds a
\* rejected token are those of the value with the token removed.
C13_RejectedTokenIsolated ==
    \A t \in RejectedTokens :
        Contains(env.sensorsEnvVal, t) =>
            <<sensorConfig.sensors, sensorConfig.hasWildcards, sensorConfig.genericSensors>>
                = Parsed(RemoveToken(env.sensorsEnvVal, t))

\* SENSORS values made only of well-formed generic tokens
GenericOnlyValues ==
    {"(pressure,Pa,1000,0)",
     "(voltage,V,12.5,0.5)",
     "(pressure,Pa,1000,0),(voltage,V,12.5,0.5)",
     "(voltage,V,12.5,0.5),(pressure,Pa,1000,0)"}

\* C21: a SENSORS value made only of well-formed generic tokens yields no
\* temperature pattern and hasWildcards false, so that isValidSensor accepts
\* every sensor name it is asked about.
C21_GenericOnlyNoPatterns ==
    env.sensorsEnvVal \in GenericOnlyValues =>
        /\ sensorConfig.sensors = {}
        /\ ~sensorConfig.hasWildcards
        /\ call.op = "isValidSensor" => call.ret = TRUE

---------------------------------------------------------------------------
(* Claims about updateTemperatures *)

\* the last operation was a cycle of updateTemperatures that ran its loop
LoopRan == call.op = "updateTemperatures" /\ Len(call.log) > 0

\* reading i of the last cycle was stored
Stored(i) == call.log[i].verdict = "stored"

\* what the Temperatures map holds for reading i of the last cycle
StoredValue(i) == systemStats.Temperatures.m[call.log[i].name]

\* the readings of raw value raw, in a cycle that ran its loop, have the value
\* scaled after scaling, pass the plausibility check, and are stored as stored
\* when they are stored
ScalesTo(raw, scaled, stored) ==
    LoopRan =>
        \A i \in 1..Len(call.log) :
            call.source.temps[i].Temperature = raw /\ call.log[i].verdict # "malformed" =>
                /\ call.log[i].value = scaled
                /\ call.log[i].verdict # "implausible"
                /\ Stored(i) => StoredValue(i) = stored

\* C5, as claimed: a raw reading of 0.45 is scaled to 45.0 and stored as
\* 45.0, and a raw reading of 0.0045 is scaled to 45.0 (x1000) and stored as 45.0.
C5_BothScaleTo45 ==
    /\ ScalesTo(4500, 45 * Scale, 45 * Scale)
    /\ ScalesTo(45, 45 * Scale, 45 * Scale)

\* C5, amended: a raw reading of 0.45 is scaled to 45.0 (x100) and stored as
\* 45.0; a raw reading of 0.0045 is scaled to 0.45, the x100 fallback, since
\* neither 0.45 nor 4.5 lies in [15,95], and stored as 0.45; the x1000 branch
\* is the one a raw reading of 0.045 takes, to 45.0.
C5_ScaleHeuristic ==
    /\ ScalesTo(4500, 45 * Scale, 45 * Scale)
    /\ ScalesTo(45, 4500, 4500)
    /\ ScalesTo(450, 45 * Scale, 45 * Scale)

\* C5's case: a stored raw reading of 0.0045
C5_Witness ==
    /\ LoopRan
    /\ \E i \in 1..Len(call.log) :
           /\ call.source.temps[i].Temperature = 45
           /\ Stored(i)
           /\ StoredValue(i) = 4500

\* the names the readings before reading i of the last cycle were stored under
StoredBefore(i) == {call.log[j].name : j \in {k \in 1..(i - 1) : Stored(k)}}

\* C6: a stored reading whose key no earlier reading of the cycle was stored
\* under keeps its key, and one at 0-based index n whose key is taken gets
\* key_n; the map holds exactly the names stored; two readings keyed core
\* that are both stored get core and core_1.
C6_DuplicateKeySuffix ==
    LoopRan =>
        /\ \A i \in 1..Len(call.log) :
               Stored(i) =>
                   LET key == call.source.temps[i].SensorKey
                   IN  call.log[i].name = IF key \in StoredBefore(i)
                                          THEN key \o "_" \o Itoa(i - 1)
                                          ELSE key
        /\ DOMAIN systemStats.Temperatures.m =
               {call.log[i].name : i \in {k \in 1..Len(call.log) : Stored(k)}}
        /\ /\ Len(call.log) >= 2
           /\ call.source.temps[1].SensorKey = "core" /\ Stored(1)
           /\ call.source.temps[2].SensorKey = "core" /\ Stored(2)
           => call.log[1].name = "core" /\ call.log[2].name = "core_1"

\* C6's case: two readings keyed core, stored as core and core_1
C6_Witness ==
    /\ LoopRan
    /\ Len(call.log) = 2
    /\ call.source.temps[1].SensorKey = "core"
    /\ call.source.temps[2].SensorKey = "core"
    /\ DOMAIN systemStats.Temperatures.m = {"core", "core_1"}

\* C8: skipCollection is set exactly when SENSORS is set to the empty string,
\* and a cycle under skipCollection does not invoke the sensor source and
\* leaves the Temperatures map and DashboardTemp as they were.
C8_SkipCollection ==
    /\ [](sensorConfig.skipCollection = (env.sensorsSet /\ env.sensorsEnvVal = ""))
    /\ [][call'.op = "updateTemperatures" /\ sensorConfig.skipCollection =>
              /\ call'.invoked = 0
              /\ systemStats' = systemStats
              /\ DashboardTemp' = DashboardTemp]_vars

\* C8's case: a skipped cycle on a map that holds an entry
C8_Witness ==
    /\ call.op = "updateTemperatures"
    /\ sensorConfig.skipCollection
    /\ call.hadTemps
    /\ "old" \in DOMAIN systemStats.Temperatures.m
    /\ DashboardTemp = 50 * Scale

\* C9: a cycle that is not skipped invokes the sensor source once, and a
\* second time exactly when the first invocation panicked; an error value
\* returned with the readings causes no retry; there is no third invocation.
C9_RetryOnce ==
    call.op = "updateTemperatures" /\ ~sensorConfig.skipCollection =>
        /\ call.invoked = (IF call.source.faults >= 1 THEN 2 ELSE 1)
        /\ call.source.faults = 0 /\ call.source.err => call.invoked = 1
        /\ call.invoked <= 2

\* C9's case: the first invocation panicked and the retry brought readings
C9_Witness ==
    /\ LoopRan
    /\ call.source.faults = 1
    /\ call.invoked = 2

\* C10: when both invocations panic the call returns normally, and a map that
\* held entries is replaced by an empty one while an unset or empty map is
\* left as it was.
C10_BothFaultsClear ==
    [][/\ call'.op = "updateTemperatures"
       /\ ~sensorConfig.skipCollection
       /\ call'.source.faults >= 2
       => /\ ~call'.panicked
          /\ MapLen(systemStats'.Temperatures) = 0
          /\ systemStats'.Temperatures =
                 IF MapLen(systemStats.Temperatures) > 0 THEN MadeMap(EmptyMap)
                 ELSE systemStats.Temperatures]_vars

\* C10's case: both invocations panicked on a map that held entries
C10_Witness ==
    /\ call.op = "updateTemperatures"
    /\ ~sensorConfig.skipCollection
    /\ call.source.faults >= 2
    /\ call.hadTemps
    /\ ~call.panicked
    /\ systemStats.Temperatures = MadeMap(EmptyMap)

\* the readings of the last cycle that were stored
StoredReadings == {i \in 1..Len(call.log) : Stored(i)}

\* C14: within one cycle no stored temperature is overwritten: a reading that
\* is stored gets a name no earlier reading of the cycle was stored under,
\* and the map holds as many entries as readings were stored.
C14_NoOverwrite ==
    LoopRan =>
        /\ \A i \in StoredReadings : call.log[i].name \notin StoredBefore(i)
        /\ Cardinality(DOMAIN systemStats.Temperatures.m) = Cardinality(StoredReadings)

\* the greatest element of a non-empty set of numbers
SetMax(S) == CHOOSE x \in S : \A y \in S : y <= x

\* the stored readings of the last cycle whose output name is the primary
\* sensor
PrimaryReadings == {i \in StoredReadings : call.log[i].name = sensorConfig.primarySensor}

\* C15: after a cycle that is not skipped and received at least one reading,
\* DashboardTemp is, without a primary sensor, the greatest scaled, unrounded
\* value of the stored readings, or 0 when none was stored; with a primary
\* sensor, the value of the last stored reading whose output name is the
\* primary sensor, or 0 when there is none.
C15_DashboardAggregate ==
    LoopRan /\ ~sensorConfig.skipCollection =>
        DashboardTemp =
            IF sensorConfig.primarySensor = ""
            THEN SetMax({call.log[i].value : i \in StoredReadings} \cup {0})
            ELSE IF PrimaryReadings = {} THEN 0
            ELSE call.log[SetMax(PrimaryReadings)].value

\* C15's case: the primary sensor core read 45 while a reading of 60.1234
\* was stored as well
C15_Witness ==
    /\ LoopRan
    /\ sensorConfig.primarySensor = "core"
    /\ DashboardTemp = 45 * Scale
    /\ \E i \in StoredReadings : call.log[i].value = 601234

\* the name reading i of the last cycle goes by after the duplicate test,
\* which looks at the names stored before it in the cycle
OutputKey(i) ==
    LET key == call.source.temps[i].SensorKey
    IN  IF key \in StoredBefore(i) THEN key \o "_" \o Itoa(i - 1) ELSE key

\* the filter accepts the name of a temperature sensor
Accepts(config, name) ==
    config.sensors = {} \/ (Matched(config, name) # config.isBlacklist)

\* reading i of the last cycle reached the filter
Plausible(i) == call.log[i].verdict \in {"filtered", "stored"}

\* C16: the filter is asked about the output key, and the duplicate test
\* looks only at the keys stored in this cycle: a plausible reading is stored
\* exactly when the filter accepts its output key; under the whitelist {core}
\* two plausible readings keyed core leave only the first in the map; and a
\* stored reading none of whose namesakes was stored before it keeps its key.
C16_FilterOnOutputKey ==
    LoopRan =>
        /\ \A i \in 1..Len(call.log) :
               Plausible(i) => (Stored(i) <=> Accepts(sensorConfig, OutputKey(i)))
        /\ /\ sensorConfig.sensors = {"core"} /\ ~sensorConfig.isBlacklist
           /\ Len(call.log) = 2
           /\ call.source.temps[1].SensorKey = "core" /\ Plausible(1)
           /\ call.source.temps[2].SensorKey = "core" /\ Plausible(2)
           => /\ DOMAIN systemStats.Temperatures.m = {"core"}
              /\ systemStats.Temperatures.m["core"] = twoDecimals(call.log[1].value)
              /\ call.log[2].verdict = "filtered"
        /\ \A i \in StoredReadings :
               (\A j \in 1..(i - 1) :
                    call.source.temps[j].SensorKey = call.source.temps[i].SensorKey
                        => ~Stored(j))
               => call.log[i].name = call.source.temps[i].SensorKey

\* C16's case: under the whitelist {core} the second of two plausible
\* readings keyed core was filtered out
C16_Witness ==
    /\ LoopRan
    /\ sensorConfig.sensors = {"core"} /\ ~sensorConfig.isBlacklist
    /\ Len(call.log) = 2
    /\ call.source.temps[1].SensorKey = "core" /\ Stored(1)
    /\ call.source.temps[2].SensorKey = "core" /\ call.log[2].verdict = "filtered"
    /\ DOMAIN systemStats.Temperatures.m = {"core"}

\* C17: when the sensor source answers with zero readings, the cycle leaves
\* the Temperatures map exactly as it was: an unset map stays unset and a map
\* that holds entries keeps them.
C17_ZeroReadingsKeepMap ==
    [][/\ call'.op = "updateTemperatures"
       /\ ~sensorConfig.skipCollection
       /\ call'.source.faults <= 1
       /\ Len(call'.source.temps) = 0
       => systemStats'.Temperatures = systemStats.Temperatures]_vars

\* C17's case: the source answered at once with zero readings and the map
\* holds the entry of an earlier cycle
C17_Witness ==
    /\ call.op = "updateTemperatures"
    /\ ~sensorConfig.skipCollection
    /\ call.source.faults = 0
    /\ Len(call.source.temps) = 0
    /\ call.invoked = 1
    /\ call.hadTemps
    /\ "old" \in DOMAIN systemStats.Temperatures.m

\* C22: after a cycle that is not skipped and received at least one reading,
\* the Temperatures map is set and holds only what the readings of that cycle
\* produced: each entry bears the name and the rounded value of a reading
\* stored in the cycle, a key of the map the cycle was handed is there only
\* if a reading produced it again, and the map is empty when every reading
\* was rejected.
C22_OnlyThisCycle ==
    [][call'.op = "updateTemperatures" /\ ~sensorConfig.skipCollection
          /\ Len(call'.log) > 0
       => LET log    == call'.log
              stored == {i \in 1..Len(log) : log[i].verdict = "stored"}
              after  == systemStats'.Temperatures
          IN  /\ ~after.isNil
              /\ \A k \in DOMAIN after.m :
                     \E i \in stored : /\ log[i].name = k
                                       /\ after.m[k] = twoDecimals(log[i].value)
              /\ \A k \in DOMAIN systemStats.Temperatures.m :
                     k \in DOMAIN after.m => \E i \in stored : log[i].name = k
              /\ stored = {} => after = MadeMap(EmptyMap)]_vars

\* C22's case: a cycle all of whose readings were rejected, on a map that
\* held an entry, left the map set and empty
C22_Witness ==
    /\ LoopRan
    /\ ~sensorConfig.skipCollection
    /\ call.hadTemps
    /\ StoredReadings = {}
    /\ systemStats.Temperatures = MadeMap(EmptyMap)

\* C23: a cycle that is not skipped resets DashboardTemp to 0 before it
\* invokes the sensor source: DashboardTemp is 0 after a cycle in which both
\* invocations panicked, after one that received zero readings, also when the
\* Temperatures map still holds the entries of an earlier cycle, and after
\* one that stored no reading; nothing of its earlier value is left.
C23_DashboardReset ==
    call.op = "updateTemperatures" /\ ~sensorConfig.skipCollection =>
        /\ call.source.faults >= 2 => DashboardTemp = 0
        /\ Len(call.source.temps) = 0 => DashboardTemp = 0
        /\ Len(call.log) = 0 => DashboardTemp = 0
        /\ (\A i \in 1..Len(call.log) : ~Stored(i)) => DashboardTemp = 0
        /\ DashboardTemp \in {0} \cup {call.log[i].value : i \in StoredReadings}

\* C23's case: zero readings, the map still holds the entry of an earlier
\* cycle and DashboardTemp is 0
C23_Witness ==
    /\ call.op = "updateTemperatures"
    /\ ~sensorConfig.skipCollection
    /\ call.source.faults = 0
    /\ Len(call.source.temps) = 0
    /\ "old" \in DOMAIN systemStats.Temperatures.m
    /\ DashboardTemp = 0

\* C24: for every raw value with 0 < raw < 1 scaleTemperature returns a
\* value strictly between 0 and 100, so that such a reading is never rejected
\* as implausible, also when neither raw x 100 nor raw x 1000 lies in
\* [15,95]; and a reading with raw <= 0 is always rejected, scaled or not.
C24_FractionNeverImplausible ==
    /\ \A raw \in 1..(Scale - 1) :
           scaleTemperature(raw) > 0 /\ scaleTemperature(raw) < 100 * Scale
    /\ LoopRan =>
           \A i \in 1..Len(call.log) :
               LET raw == call.source.temps[i].Temperature
               IN  /\ raw > 0 /\ raw < Scale /\ call.log[i].verdict # "malformed" =>
                          /\ call.log[i].value = scaleTemperature(raw)
                          /\ call.log[i].verdict # "implausible"
                   /\ raw <= 0 => ~Stored(i) /\ call.log[i].verdict # "filtered"

\* C24's case: a raw value of 0.9999, for which neither 99.99 nor 999.9 lies
\* in [15,95], was stored as 99.99
C24_Witness ==
    /\ LoopRan
    /\ call.source.temps[1].Temperature = Scale - 1
    /\ Stored(1)
    /\ StoredValue(1) = 999900

---------------------------------------------------------------------------
(* Claims about updateGenericSensors *)

\* the value the file of sensor `name` holds, when it is there, can be read
\* and holds a number
FileValue(name) == ParseFloat(TrimSpace(genericDir[name].content))

HoldsNumber(name) ==
    /\ genericDir[name].exists
    /\ genericDir[name].readable
    /\ ~FileValue(name).err

Stdout(entry) ==
    IF HasPrefix(entry.content, "#!/bin/sh\necho ")
    THEN SubSeq(entry.content, Len("#!/bin/sh\necho ") + 1, Len(entry.content))
    ELSE ""

\* what a cycle takes as the text of the value of sensor `name`
ValueText(name) ==
    IF genericDir[name].executable THEN Stdout(genericDir[name])
    ELSE genericDir[name].content

\* C11: the value of a configured sensor whose entry has execute permission
\* is the trimmed standard output of running the entry, not its file content,
\* and the value of one without execute permission is its file content: a
\* cycle stores the sensor exactly when that text is a number in range, as
\* that number.
C11_ExecutableEntryRuns ==
    call.op = "updateGenericSensors" =>
        \A name \in DOMAIN sensorConfig.genericSensors :
            LET def   == sensorConfig.genericSensors[name]
                value == ParseFloat(TrimSpace(ValueText(name)))
            IN  genericDir[name].exists /\ genericDir[name].readable =>
                    /\ name \in call.stored <=> ~value.err /\ inRange(value.value, def)
                    /\ name \in call.stored =>
                           systemStats.GenericSensors.m[name].Value = twoDecimals(value.value)

\* the fields of a token between its parentheses
TokenFields(sensor) == Split(SubSeq(sensor, 2, Len(sensor) - 1), ",")

\* the text is a number
IsNumber(text) == ~ParseFloat(text).err /\ ParseFloat(text).value # NaN

\* a generic token that must add no definition: its field count is not four,
\* its name or unit is empty, a bound is no number, or minimum >= maximum
BadToken(sensor) ==
    LET fields == TokenFields(sensor)
    IN  \/ Len(fields) # 4
        \/ TrimSpace(fields[1]) = ""
        \/ TrimSpace(fields[2]) = ""
        \/ ~IsNumber(TrimSpace(fields[3]))
        \/ ~IsNumber(TrimSpace(fields[4]))
        \/ ParseFloat(TrimSpace(fields[4])).value >= ParseFloat(TrimSpace(fields[3])).value

GivesValidValue(name) ==
    /\ HoldsNumber(name)
    /\ sensorConfig.genericSensors[name].Minimum <= FileValue(name).value
    /\ FileValue(name).value <= sensorConfig.genericSensors[name].Maximum

\* C18: whatever the GenericSensors map held when the cycle began, a
\* configured sensor whose entry is missing, unreadable, unparsable or out of
\* range in this cycle has no entry in the map when the call returns.
C18_FailedSensorAbsent ==
    call.op = "updateGenericSensors" =>
        \A name \in DOMAIN sensorConfig.genericSensors :
            ~GivesValidValue(name) => name \notin DOMAIN systemStats.GenericSensors.m

\* C19: what a cycle does for a configured sensor depends only on the entry
\* and the definition of that sensor: it is stored exactly when its own entry
\* gives a valid value, as that value, whatever becomes of the other sensors
\* and whatever order the sensors are visited in; a sensor that fails does
\* not keep the sensors after it from being stored.
C19_SensorsIndependent ==
    call.op = "updateGenericSensors" =>
        /\ \A name \in DOMAIN sensorConfig.genericSensors :
               /\ name \in call.stored <=> GivesValidValue(name)
               /\ GivesValidValue(name) =>
                      systemStats.GenericSensors.m[name].Value =
                          twoDecimals(FileValue(name).value)
        /\ \A i \in 1..Len(call.order), j \in 1..Len(call.order) :
               i < j /\ ~GivesValidValue(call.order[i]) /\ GivesValidValue(call.order[j])
                   => call.order[j] \in call.stored

\* C19's case: the sensor visited first has no entry and the one visited
\* after it is stored
C19_Witness ==
    /\ call.op = "updateGenericSensors"
    /\ call.order = <<"voltage", "pressure">>
    /\ ~genericDir["voltage"].exists
    /\ call.stored = {"pressure"}
    /\ "pressure" \in DOMAIN systemStats.GenericSensors.m

\* C20, as claimed: the GenericSensors map is made at the first entry stored:
\* after a cycle on a snapshot whose map is unset, the map is unset when no
\* sensor was stored and set only when one was.
C20_LazyAllocation ==
    [][call'.op = "updateGenericSensors" /\ systemStats.GenericSensors.isNil =>
           (systemStats'.GenericSensors.isNil <=> call'.stored = {})]_vars

\* C20, amended: the GenericSensors map is made before the loop whenever a
\* generic sensor is configured: after a cycle on a snapshot whose map is
\* unset, the map is unset exactly when no generic sensor is configured, and
\* otherwise set and holding exactly the entries stored, none included.
C20_AllocatedWhenConfigured ==
    [][call'.op = "updateGenericSensors" /\ systemStats.GenericSensors.isNil =>
           /\ systemStats'.GenericSensors.isNil <=> DOMAIN sensorConfig.genericSensors = {}
           /\ DOMAIN systemStats'.GenericSensors.m = call'.stored]_vars

\* C20's case: a cycle with a configured sensor stored nothing and the map is
\* set and empty
C20_Witness ==
    /\ call.op = "updateGenericSensors"
    /\ DOMAIN sensorConfig.genericSensors # {}
    /\ call.stored = {}
    /\ systemStats.GenericSensors = MadeMap(EmptyMap)

=============================================================================
